---- MODULE Spec2Model ----
(***************************************************************************)
(* Disclosure widgets of acore-ts: accordion / accordion group, tab group  *)
(* and dropdown, modelled as state machines whose actions are the public   *)
(* methods and the DOM event handlers of the components.  Every action is  *)
(* one handler run to completion (the event loop is single threaded).      *)
(*                                                                         *)
(* The repository carries two sources of the Accordion element and two of  *)
(* the Dropdown element.  Which one is loaded is fixed when the page is    *)
(* built, so it is a variable chosen in the initial state and never        *)
(* changed afterwards.                                                     *)
(***************************************************************************)
EXTENDS Integers, Sequences, FiniteSets, TLC

\* the null reference; element ids start at 1
Null == 0

(***************************************************************************)
(* Bounds of the model.                                                    *)
(***************************************************************************)
\* number of accordions that are direct members of the outer group
GroupSize == 3

\* largest number of panels of the tab group
MaxTabs == 3

\* largest number of menu items in a dropdown's content
MaxItems == 2

\* largest number of animation-frame callbacks waiting at a time
MaxFrames == 2

\* largest number of click listeners registered on the document at a time
MaxListeners == 2

\* number of request classes the mediator is used with
MaxRequestTypes == 3

\* number of handler objects
MaxHandlers == 2

\* number of injection tokens, and of values they are bound to
MaxTokens == 2

\* largest number of path segments of the URL the page starts at
MaxSegments == 2

(***************************************************************************)
(* Program constants.                                                      *)
(***************************************************************************)
\* the gap the dropdown keeps to the trigger and to the viewport edges
Margin == 8

(***************************************************************************)
(* ACCORDION                                                               *)
(*                                                                         *)
(* Page layout: accordions 1..GroupSize are the members of group "outer";  *)
(* the content of accordion 1 holds a second group, "inner", with two      *)
(* members; one more accordion stands alone (no group).  A script of the   *)
(* page may take the accordions of Removable out of the document; their    *)
(* methods can still be called afterwards.                                 *)
(***************************************************************************)
Groups == {"outer", "inner"}

OuterMembers == 1 .. GroupSize

InnerMembers == {GroupSize + 1, GroupSize + 2}

Standalone == {GroupSize + 3}

Accordions == OuterMembers \cup InnerMembers \cup Standalone

\* the accordions whose parent element is the group
Members(g) == IF g = "outer" THEN OuterMembers ELSE InnerMembers

\* The groups an "accordion-expanded" event of accordion a passes, innermost
\* first: the event bubbles and is composed, so it reaches every ancestor.
EventPath(a) ==
  IF a \in OuterMembers THEN <<"outer">>
  ELSE IF a \in InnerMembers THEN <<"inner", "outer">>
  ELSE <<>>

\* the accordions the page may remove: one member of each group
Removable == {2, GroupSize + 1}

AccordionSources == {"Accordion.ts", "part_004"}

VARIABLES
  accordionSource,        \* which Accordion class is defined as ac-accordion
  isExpanded,             \* Accordion.isExpanded, per accordion
  ariaExpanded,           \* trigger attribute aria-expanded, per accordion
  ariaHidden,             \* content attribute aria-hidden, per accordion
  currentOpenAccordion,   \* AccordionGroup.currentOpenAccordion, per group
  collapseCalls,          \* per accordion: times its collapse() ran in the last handler
  listenerError,          \* an event listener threw during the last handler
  eventsDispatched,       \* "accordion-expanded" events dispatched by the last handler
  accRemoved,             \* per accordion: it was taken out of the document
  lastOp                  \* the handler that ran last: <<name, argument, ...>>

accVars == <<accordionSource, isExpanded, ariaExpanded, ariaHidden,
             currentOpenAccordion, collapseCalls, listenerError,
             eventsDispatched, accRemoved>>

VARIABLES
  tabConnected,      \* TabGroup.connectedCallback has run
  panelCount,        \* ac-tab elements in the group's light DOM
  triggerCount,      \* ac-tab-trigger elements in the group's light DOM
  tabs,              \* TabGroup.tabs, a sequence of panels
  tabActive,         \* per panel: it has the attribute "active"
  activeTab,         \* TabGroup._activeTab, a panel or Null
  triggerSelected,   \* per trigger: it has the attribute "selected"
  tabResult          \* what the last call returned: "true", "false", "none",
                     \* or "TypeError" when it raised

tabVars == <<tabConnected, panelCount, triggerCount, tabs, tabActive,
             activeTab, triggerSelected, tabResult>>

VARIABLES
  dropdownSource,    \* which Dropdown class is defined as ac-dropdown
  ddConnected,       \* per dropdown: connectedCallback has run
  docListeners,      \* dropdowns whose document click listener (and window
                     \* scroll and resize listeners) is registered, in order
  contentHidden,     \* per dropdown: content.classList contains "hidden"
  ddAriaExpanded,    \* per dropdown: the trigger's aria-expanded attribute
  itemCount,         \* per dropdown: elements with role menuitem in the content
  activeElement,     \* document.activeElement
  frameQueue,        \* callbacks passed to requestAnimationFrame, not yet run
  scene,             \* the geometry the page has now, an index of Scenes
  position           \* per dropdown: content.style top, left, maxWidth

ddVars == <<dropdownSource, ddConnected, docListeners, contentHidden,
            ddAriaExpanded, itemCount, activeElement, frameQueue, scene,
            position>>

VARIABLES
  plRects,           \* what getBoundingClientRect and the window report
  plStyle            \* the content's inline style top, left, maxWidth

plVars == <<plRects, plStyle>>

VARIABLES
  ddFound,           \* what the lookups of Dropdown.initializeElements find
  accFound,          \* what the lookups of Accordion.initializeElements find
  fresh,             \* the fields of an accordion that is being connected
  initError          \* what the last handler raised, or "none"

initVars == <<ddFound, accFound, fresh, initError>>

VARIABLES
  medHandlers,       \* Mediator.handlers: request type -> handler, or Null
  medInvoked,        \* the handlers whose handle() the last send called
  medResult          \* what the last send yielded

medVars == <<medHandlers, medInvoked, medResult>>

VARIABLES
  injMaps,           \* the Map objects of the program: token -> value, or Null
  injContainer,      \* per Injector instance: the Map its container field holds
  injResult          \* what the last call returned or raised

injVars == <<injMaps, injContainer, injResult>>

VARIABLES
  i18nLocales,       \* I18n.locales, in the order of the translation table
  i18nUrl,           \* pathname of the URL the page is at
  i18nLocale,        \* the locale asked for
  i18nDefault,       \* the defaultLocale argument
  i18nOut,           \* pathname of the URL getLocaleUrl returned
  i18nDetected       \* the locale getLocaleFromUrl found in that URL

i18nVars == <<i18nLocales, i18nUrl, i18nLocale, i18nDefault, i18nOut,
              i18nDetected>>

libVars == <<medVars, injVars, i18nVars>>

\* The accordion part of the state as one value, threaded through the calls
\* of a handler.
AccState ==
  [exp |-> isExpanded, ariaExp |-> ariaExpanded, ariaHid |-> ariaHidden,
   cur |-> currentOpenAccordion,
   calls |-> [a \in Accordions |-> 0], err |-> FALSE, events |-> 0]

\* part_004: the expanded branch of toggleAccordion without its notification
SetExpanded(s, a) ==
  [s EXCEPT !.exp[a] = TRUE, !.ariaExp[a] = "true", !.ariaHid[a] = "false"]

SetCollapsed(s, a) ==
  [s EXCEPT !.exp[a] = FALSE, !.ariaExp[a] = "false", !.ariaHid[a] = "true"]

\* part_004 Accordion.collapse(): public, collapses when expanded.  The
\* collapsing branch of toggleAccordion dispatches no event.
Accordion_collapse(s, a) ==
  LET t == [s EXCEPT !.calls[a] = @ + 1]
  IN  IF t.exp[a] THEN SetCollapsed(t, a) ELSE t

\* Faulty variant: the group never records the accordion that opened.
GroupListener_NoRecord(s, g, a) ==
  IF s.cur[g] # Null /\ s.cur[g] # a
  THEN IF accordionSource = "part_004" THEN Accordion_collapse(s, s.cur[g])
       ELSE [s EXCEPT !.err = TRUE]
  ELSE s

\* AccordionGroup's "accordion-expanded" listener.  It calls collapse() on the
\* recorded accordion.  The Accordion class of Accordion.ts has no collapse
\* method: the call raises a TypeError, which ends the listener before the
\* assignment of currentOpenAccordion (the exception is reported, it does not
\* reach the code that dispatched the event).
GroupListener(s, g, a) ==
  IF s.cur[g] # Null /\ s.cur[g] # a
  THEN IF accordionSource = "part_004"
       THEN [Accordion_collapse(s, s.cur[g]) EXCEPT !.cur[g] = a]
       ELSE [s EXCEPT !.err = TRUE]
  ELSE [s EXCEPT !.cur[g] = a]

RECURSIVE Dispatch(_, _, _)
\* notifyExpanded: the listeners of the groups on the path run in order.
Dispatch(s, path, a) ==
  IF path = <<>> THEN s
  ELSE Dispatch(GroupListener(s, Head(path), a), Tail(path), a)

\* Accordion.notifyExpanded(): the event of an accordion that is not in the
\* document reaches no group
notifyExpanded(s, a) ==
  Dispatch([s EXCEPT !.events = @ + 1],
           IF accRemoved[a] THEN <<>> ELSE EventPath(a), a)

\* Accordion.toggle() of Accordion.ts and toggleAccordion() of part_004: the
\* state changes are the same (the height animation is not modelled).
Accordion_toggle(s, a) ==
  IF ~s.exp[a] THEN notifyExpanded(SetExpanded(s, a), a)
  ELSE SetCollapsed(s, a)

\* Faulty variant: open() on an expanded accordion announces it again.
Accordion_open_Renotify(s, a) ==
  IF ~s.exp[a] THEN Accordion_toggle(s, a) ELSE notifyExpanded(s, a)

\* Accordion.open()
Accordion_open(s, a) == IF ~s.exp[a] THEN Accordion_toggle(s, a) ELSE s

\* Accordion.close()
Accordion_close(s, a) == IF s.exp[a] THEN Accordion_toggle(s, a) ELSE s

\* Install the result of a handler, and name the handler.
AccCommit(s, op) ==
  /\ isExpanded' = s.exp
  /\ ariaExpanded' = s.ariaExp
  /\ ariaHidden' = s.ariaHid
  /\ currentOpenAccordion' = s.cur
  /\ collapseCalls' = s.calls
  /\ listenerError' = s.err
  /\ eventsDispatched' = s.events
  /\ lastOp' = op
  /\ UNCHANGED accordionSource
  /\ UNCHANGED <<tabVars, ddVars, plVars, initVars, libVars>>

AccInit ==
  /\ accordionSource \in AccordionSources
  /\ isExpanded = [a \in Accordions |-> FALSE]
  /\ ariaExpanded = [a \in Accordions |-> "false"]
  /\ ariaHidden = [a \in Accordions |-> "true"]
  /\ currentOpenAccordion = [g \in Groups |-> Null]
  /\ collapseCalls = [a \in Accordions |-> 0]
  /\ listenerError = FALSE
  /\ eventsDispatched = 0
  /\ accRemoved = [a \in Accordions |-> FALSE]

\* public open() of Accordion.ts
AccOpen(a) ==
  /\ accordionSource = "Accordion.ts"
  /\ AccCommit(Accordion_open(AccState, a), <<"open", a>>)
  /\ UNCHANGED accRemoved

\* public close() of Accordion.ts
AccClose(a) ==
  /\ accordionSource = "Accordion.ts"
  /\ AccCommit(Accordion_close(AccState, a), <<"close", a>>)
  /\ UNCHANGED accRemoved

\* public toggle() of Accordion.ts
AccToggle(a) ==
  /\ accordionSource = "Accordion.ts"
  /\ AccCommit(Accordion_toggle(AccState, a), <<"toggle", a>>)
  /\ UNCHANGED accRemoved

\* public collapse() of part_004
AccCollapse(a) ==
  /\ accordionSource = "part_004"
  /\ AccCommit(Accordion_collapse(AccState, a), <<"collapse", a>>)
  /\ UNCHANGED accRemoved

\* handleTriggerClick of either source: toggles
AccClick(a) ==
  /\ ~accRemoved[a]
  /\ AccCommit(Accordion_toggle(AccState, a), <<"click", a>>)
  /\ UNCHANGED accRemoved

\* The accordion is taken out of the document: Accordion.disconnectedCallback
\* runs detachEventListeners, which touches no field; the group has no
\* handler for the removal of a member.
AccRemove(a) ==
  /\ a \in Removable
  /\ ~accRemoved[a]
  /\ accRemoved' = [accRemoved EXCEPT ![a] = TRUE]
  /\ AccCommit(AccState, <<"remove", a>>)

AccordionNext ==
  \E a \in Accordions :
    \/ AccOpen(a)
    \/ AccClose(a)
    \/ AccToggle(a)
    \/ AccCollapse(a)
    \/ AccClick(a)
    \/ AccRemove(a)

(***************************************************************************)
(* TAB GROUP                                                               *)
(*                                                                         *)
(* The page holds panelCount ac-tab panels and triggerCount ac-tab-trigger *)
(* elements inside one ac-tab-group, as in the usage the component         *)
(* documents; no tab group is nested inside a panel.  Panels are named     *)
(* 1..panelCount; the code's zero-based index of panel p in this.tabs is   *)
(* p - 1.  The page's markup may already carry the attribute "active" on   *)
(* any of its panels.                                                      *)
(***************************************************************************)
Panels == 1 .. MaxTabs

\* triggers are named by their zero-based position among the group's triggers
TriggerIndexes == 0 .. MaxTabs

\* A JavaScript number: an integer or NaN.
Num(v) == [nan |-> FALSE, v |-> v]

NaN == [nan |-> TRUE, v |-> -1]

\* JavaScript x < y and x >= y: every comparison with NaN is false.
JsLt(x, y) == ~x.nan /\ ~y.nan /\ x.v < y.v

JsGe(x, y) == ~x.nan /\ ~y.nan /\ x.v >= y.v

\* JavaScript a % b on integers: NaN when b is 0, else the remainder with the
\* sign of the dividend.
JsRem(a, b) ==
  IF b = 0 THEN NaN
  ELSE IF a >= 0 THEN Num(a % b) ELSE Num(-((-a) % b))

TabState ==
  [tabs |-> tabs, active |-> tabActive, activeTab |-> activeTab,
   selected |-> triggerSelected, ret |-> "none"]

\* Array.prototype.indexOf on a tabs array that holds panels 1..Len(ts)
IndexOf(ts, p) == IF p \in 1 .. Len(ts) THEN p - 1 ELSE -1

\* getter activeTabIndex
ActiveTabIndexOf(ts, at) == IF at # Null THEN IndexOf(ts, at) ELSE -1

activeTabIndex == ActiveTabIndexOf(tabs, activeTab)

tabCount == Len(tabs)

\* Tab.deactivate()
Tab_deactivate(s, p) == IF s.active[p] THEN [s EXCEPT !.active[p] = FALSE] ELSE s

\* TabGroup.updateTabStates(activeIndex)
updateTabStates(s, activeIndex) ==
  [s EXCEPT !.selected =
     [i \in TriggerIndexes |-> i < triggerCount /\ i = activeIndex]]

\* the group's "tab-activated" listener (installed by setupTabListeners)
TabActivatedListener(s, newTab) ==
  LET s1 == IF s.activeTab # Null /\ s.activeTab # newTab
            THEN Tab_deactivate(s, s.activeTab) ELSE s
      s2 == [s1 EXCEPT !.activeTab = newTab]
  IN  updateTabStates(s2, IndexOf(s.tabs, newTab))

\* Tab.activate(): sets the attribute and notifies only when not yet active
Tab_activate(s, p, listening) ==
  IF ~s.active[p]
  THEN LET s1 == [s EXCEPT !.active[p] = TRUE]
       IN  IF listening THEN TabActivatedListener(s1, p) ELSE s1
  ELSE s

\* lines 180-181 of activateTab: deactivate the old tab, strip every attribute
ClearActive(s) ==
  LET s1 == IF s.activeTab # Null THEN Tab_deactivate(s, s.activeTab) ELSE s
  IN  [s1 EXCEPT !.active = [q \in Panels |-> IF q \in 1 .. Len(s.tabs) THEN FALSE ELSE @[q]]]

\* Faulty variant: the previously active tab keeps its attribute.
activateTab_KeepOld(s, p, listening) ==
  LET s3 == [s EXCEPT !.active[p] = TRUE]
      s4 == Tab_activate(s3, p, listening)
  IN  [s4 EXCEPT !.activeTab = p]

\* TabGroup.activateTab(tab) for a tab of this.tabs.  The aria updates of
\* lines 188-193 act on the buttons of the shadow tab list, which has none.
activateTab(s, p, listening) ==
  LET s3 == [ClearActive(s) EXCEPT !.active[p] = TRUE]
      s4 == Tab_activate(s3, p, listening)
  IN  [s4 EXCEPT !.activeTab = p]

\* TabGroup.activateTab(undefined): lines 180-181 run, then
\* tab.setAttribute raises a TypeError
activateTabUndefined(s) == [ClearActive(s) EXCEPT !.ret = "TypeError"]

\* Faulty variant: the upper bound of the range check is off by one.
selectTab_OffByOne(s, index, listening) ==
  IF JsLt(index, Num(0)) \/ JsGe(index, Num(Len(s.tabs) + 1))
  THEN [s EXCEPT !.ret = "false"]
  ELSE IF index.nan \/ index.v + 1 \notin 1 .. Len(s.tabs)
       THEN activateTabUndefined(s)
       ELSE [activateTab(s, s.tabs[index.v + 1], listening) EXCEPT !.ret = "true"]

\* TabGroup.selectTab(index).  this.tabs[index] is undefined when index is
\* NaN, which passes both comparisons of the range check.
selectTab(s, index, listening) ==
  IF JsLt(index, Num(0)) \/ JsGe(index, Num(Len(s.tabs)))
  THEN [s EXCEPT !.ret = "false"]
  ELSE IF index.nan \/ index.v + 1 \notin 1 .. Len(s.tabs)
       THEN activateTabUndefined(s)
       ELSE [activateTab(s, s.tabs[index.v + 1], listening) EXCEPT !.ret = "true"]

\* Faulty variant: nextTab stops at the last tab instead of wrapping.
nextTab_NoWrap(s) ==
  LET currentIndex == ActiveTabIndexOf(s.tabs, s.activeTab)
  IN  selectTab(s, Num(IF currentIndex + 1 >= Len(s.tabs) /\ Len(s.tabs) > 0
                       THEN currentIndex ELSE currentIndex + 1), tabConnected)

\* TabGroup.nextTab()
nextTab(s) ==
  LET currentIndex == ActiveTabIndexOf(s.tabs, s.activeTab)
  IN  selectTab(s, JsRem(currentIndex + 1, Len(s.tabs)), tabConnected)

\* Faulty variant: previousTab stops at the first tab instead of wrapping.
previousTab_NoWrap(s) ==
  LET currentIndex == ActiveTabIndexOf(s.tabs, s.activeTab)
  IN  selectTab(s, Num(currentIndex - 1), tabConnected)

\* TabGroup.previousTab()
previousTab(s) ==
  LET currentIndex == ActiveTabIndexOf(s.tabs, s.activeTab)
      prevIndex == IF currentIndex - 1 < 0 THEN Len(s.tabs) - 1 ELSE currentIndex - 1
  IN  selectTab(s, Num(prevIndex), tabConnected)

\* Faulty variant: every trigger selects the first tab.
TabTriggerClickListener_First(s, index) ==
  IF index >= 0
  THEN LET r == selectTab(s, Num(0), TRUE)
       IN  [r EXCEPT !.ret = IF @ = "TypeError" THEN @ ELSE "none"]
  ELSE s

\* the group's "tab-trigger-click" listener (installed by setupTabListeners);
\* index is the position of the trigger among the group's triggers.  The
\* result of selectTab is dropped.
TabTriggerClickListener(s, index) ==
  IF index >= 0
  THEN LET r == selectTab(s, Num(index), TRUE)
       IN  [r EXCEPT !.ret = IF @ = "TypeError" THEN @ ELSE "none"]
  ELSE s

TabCommit(s, op) ==
  /\ tabs' = s.tabs
  /\ tabActive' = s.active
  /\ activeTab' = s.activeTab
  /\ triggerSelected' = s.selected
  /\ tabResult' = s.ret
  /\ lastOp' = op
  /\ UNCHANGED <<accVars, ddVars, plVars, initVars, libVars>>

TabInit ==
  /\ tabConnected = FALSE
  /\ panelCount \in 0 .. MaxTabs
  /\ triggerCount \in 0 .. MaxTabs + 1
  /\ tabs = <<>>
  /\ tabActive \in {f \in [Panels -> BOOLEAN] : \A p \in Panels : f[p] => p <= panelCount}
  /\ activeTab = Null
  /\ triggerSelected = [i \in TriggerIndexes |-> FALSE]
  /\ tabResult = "none"

\* TabGroup.connectedCallback: render, initializeTabs, setupTabListeners.
\* initializeTabs runs before the listeners are installed.
TabConnect ==
  /\ ~tabConnected
  /\ tabConnected' = TRUE
  /\ LET s0 == [TabState EXCEPT !.tabs = [i \in 1 .. panelCount |-> i]]
         s == IF Len(s0.tabs) > 0
              THEN [selectTab(s0, Num(0), FALSE) EXCEPT !.ret = "none"]
              ELSE s0
     IN  TabCommit(s, <<"connect", 0>>)
  /\ UNCHANGED <<panelCount, triggerCount>>

\* public selectTab(index), for an integer index
TabSelect(index) ==
  /\ TabCommit(selectTab(TabState, Num(index), tabConnected), <<"selectTab", index>>)
  /\ UNCHANGED <<tabConnected, panelCount, triggerCount>>

\* public nextTab()
TabNext ==
  /\ TabCommit(nextTab(TabState), <<"nextTab", 0>>)
  /\ UNCHANGED <<tabConnected, panelCount, triggerCount>>

\* public previousTab()
TabPrevious ==
  /\ TabCommit(previousTab(TabState), <<"previousTab", 0>>)
  /\ UNCHANGED <<tabConnected, panelCount, triggerCount>>

\* A click on the trigger at position j: the trigger dispatches
\* "tab-trigger-click"; the group's listener, once installed, selects tab j.
TabTriggerClick(j) ==
  /\ j < triggerCount
  /\ LET s == IF tabConnected THEN TabTriggerClickListener(TabState, j)
              ELSE TabState
     IN  TabCommit(s, <<"triggerClick", j>>)
  /\ UNCHANGED <<tabConnected, panelCount, triggerCount>>

TabGroupNext ==
  \/ TabConnect
  \/ \E index \in -2 .. MaxTabs + 1 : TabSelect(index)
  \/ TabNext
  \/ TabPrevious
  \/ \E j \in TriggerIndexes : TabTriggerClick(j)

\* public Tab.activate() on panel p of the page: the "tab-activated" event
\* bubbles to the group, whose listener runs once it is installed
TabPanelActivate(p) ==
  /\ p <= panelCount
  /\ TabCommit(Tab_activate(TabState, p, tabConnected), <<"activate", p>>)
  /\ UNCHANGED <<tabConnected, panelCount, triggerCount>>

\* public Tab.deactivate() on panel p of the page
TabPanelDeactivate(p) ==
  /\ p <= panelCount
  /\ TabCommit(Tab_deactivate(TabState, p), <<"deactivate", p>>)
  /\ UNCHANGED <<tabConnected, panelCount, triggerCount>>

\* the calls of the group together with the calls of its panels
TabPanelNext ==
  \/ TabConnect
  \/ \E index \in -2 .. MaxTabs + 1 : TabSelect(index)
  \/ TabNext
  \/ TabPrevious
  \/ \E j \in TriggerIndexes : TabTriggerClick(j)
  \/ \E p \in Panels : TabPanelActivate(p)
  \/ \E p \in Panels : TabPanelDeactivate(p)

(***************************************************************************)
(* DROPDOWN                                                                *)
(*                                                                         *)
(* The page holds two ac-dropdown elements with the same number of menu    *)
(* items.  The content panel of a dropdown is a div the component appends  *)
(* to document.body, so it is not a descendant of the dropdown element.    *)
(*                                                                         *)
(* element.focus() is taken to move the focus to the element.  A click or  *)
(* key action is the dispatch of the event to the listeners the component  *)
(* registered; default actions of the browser are not part of it.          *)
(* focus() on an element of a dropdown that is not in the document does    *)
(* nothing, and an element that leaves the document loses the focus.       *)
(***************************************************************************)
Dropdowns == {1, 2}

DropdownSources == {"Dropdown.ts", "part_005"}

Keys == {"Enter", "Space", "ArrowDown", "ArrowUp", "Escape", "Tab", "OtherKey"}

\* The elements that can hold the focus: <<kind, dropdown, item index>>.
Body == <<"body", 0, 0>>

TriggerOf(d) == <<"trigger", d, 0>>

ContentOf(d) == <<"content", d, 0>>

ItemOf(d, i) == <<"item", d, i>>

\* Geometry of the page: trigger rectangle (tx, ty, tw, th), content size
\* (cw, ch) and viewport size (vw, vh).
Scenes ==
  << [tx |-> 500, ty |-> 700, tw |-> 100, th |-> 30, cw |-> 200, ch |-> 100,
      vw |-> 1024, vh |-> 768],
     [tx |-> 100, ty |-> 100, tw |-> 100, th |-> 30, cw |-> 200, ch |-> 100,
      vw |-> 1024, vh |-> 768] >>

NoPosition == [set |-> FALSE, top |-> 0, left2 |-> 0, maxWidth |-> 0]

\* Faulty variant: the content is never moved above the trigger.
Place_NoFlip(g) ==
  LET left0 == 2 * g.tx + (g.tw - g.cw)
      top0 == g.ty + g.th + Margin
      left1 == IF left0 + 2 * g.cw > 2 * g.vw
               THEN 2 * (g.vw - g.cw - Margin) ELSE left0
      left2 == IF left1 < 2 * Margin THEN 2 * Margin ELSE left1
      top1 == IF top0 + g.ch > g.vh THEN g.vh - g.ch - Margin ELSE top0
  IN  [set |-> TRUE, top |-> top1, left2 |-> left2, maxWidth |-> g.vw - 2 * Margin]

\* Faulty variant: left is not raised to the margin.
Place_NoLeftClamp(g) ==
  LET left0 == 2 * g.tx + (g.tw - g.cw)
      top0 == g.ty + g.th + Margin
      left1 == IF left0 + 2 * g.cw > 2 * g.vw
               THEN 2 * (g.vw - g.cw - Margin) ELSE left0
      topPosition == g.ty - g.ch - Margin
      top1 == IF top0 + g.ch > g.vh
              THEN IF topPosition > 0 THEN topPosition
                   ELSE g.vh - g.ch - Margin
              ELSE top0
  IN  [set |-> TRUE, top |-> top1, left2 |-> left1, maxWidth |-> g.vw - 2 * Margin]

\* Faulty variant: maxWidth leaves one margin only.
Place_OneMargin(g) ==
  LET left0 == 2 * g.tx + (g.tw - g.cw)
      top0 == g.ty + g.th + Margin
      left1 == IF left0 + 2 * g.cw > 2 * g.vw
               THEN 2 * (g.vw - g.cw - Margin) ELSE left0
      left2 == IF left1 < 2 * Margin THEN 2 * Margin ELSE left1
      topPosition == g.ty - g.ch - Margin
      top1 == IF top0 + g.ch > g.vh
              THEN IF topPosition > 0 THEN topPosition
                   ELSE g.vh - g.ch - Margin
              ELSE top0
  IN  [set |-> TRUE, top |-> top1, left2 |-> left2, maxWidth |-> g.vw - Margin]

\* Faulty variant: left is raised to the margin before the overflow test.
Place_ClampLeftFirst(g) ==
  LET left0 == 2 * g.tx + (g.tw - g.cw)
      top0 == g.ty + g.th + Margin
      left1 == IF left0 < 2 * Margin THEN 2 * Margin ELSE left0
      left2 == IF left1 + 2 * g.cw > 2 * g.vw
               THEN 2 * (g.vw - g.cw - Margin) ELSE left1
      topPosition == g.ty - g.ch - Margin
      top1 == IF top0 + g.ch > g.vh
              THEN IF topPosition > 0 THEN topPosition
                   ELSE g.vh - g.ch - Margin
              ELSE top0
  IN  [set |-> TRUE, top |-> top1, left2 |-> left2, maxWidth |-> g.vw - 2 * Margin]

\* The arithmetic of updatePosition.  left is kept doubled (left2 = 2 * left)
\* so that the halving of (triggerRect.width - contentRect.width) / 2 is exact.
Place(g) ==
  LET left0 == 2 * g.tx + (g.tw - g.cw)
      top0 == g.ty + g.th + Margin
      left1 == IF left0 + 2 * g.cw > 2 * g.vw
               THEN 2 * (g.vw - g.cw - Margin) ELSE left0
      left2 == IF left1 < 2 * Margin THEN 2 * Margin ELSE left1
      topPosition == g.ty - g.ch - Margin
      top1 == IF top0 + g.ch > g.vh
              THEN IF topPosition > 0 THEN topPosition
                   ELSE g.vh - g.ch - Margin
              ELSE top0
  IN  [set |-> TRUE, top |-> top1, left2 |-> left2, maxWidth |-> g.vw - 2 * Margin]

DdState ==
  [hidden |-> contentHidden, aria |-> ddAriaExpanded, active |-> activeElement,
   frames |-> frameQueue, pos |-> position]

\* What getBoundingClientRect and the window report for dropdown d.  The
\* class "hidden" of the content panel is the utility class that sets
\* display: none, so the rectangle of a hidden content panel is empty.
Measure(s, d) ==
  IF s.hidden[d] THEN [Scenes[scene] EXCEPT !.cw = 0, !.ch = 0]
  ELSE Scenes[scene]

\* Dropdown.updatePosition()
updatePosition(s, d) == [s EXCEPT !.pos[d] = Place(Measure(s, d))]

\* Faulty variant: the first menu item is never focused.
focusFirstMenuItem_None(s, d) == s

\* Dropdown.focusFirstMenuItem() (part_005)
focusFirstMenuItem(s, d) ==
  IF itemCount[d] > 0 /\ ddConnected[d] THEN [s EXCEPT !.active = ItemOf(d, 0)] ELSE s

\* Faulty variant: the content is shown where it was.
showMenu_NoPosition(s, d) ==
  LET s1 == [s EXCEPT !.hidden[d] = FALSE]
  IN  IF dropdownSource = "part_005"
      THEN [s1 EXCEPT !.frames = Append(@, d)] ELSE s1

\* Faulty variant: the position is computed before the content is shown.
showMenu_MeasureFirst(s, d) ==
  LET s1 == [updatePosition(s, d) EXCEPT !.hidden[d] = FALSE]
  IN  IF dropdownSource = "part_005"
      THEN [s1 EXCEPT !.frames = Append(@, d)] ELSE s1

\* Dropdown.showMenu(): part_005 also asks for a frame callback that focuses
\* the first menu item
showMenu(s, d) ==
  LET s1 == updatePosition([s EXCEPT !.hidden[d] = FALSE], d)
  IN  IF dropdownSource = "part_005"
      THEN [s1 EXCEPT !.frames = Append(@, d)] ELSE s1

\* Faulty variant: hiding leaves the focus where it is.
hideMenu_NoFocus(s, d) == [s EXCEPT !.hidden[d] = TRUE]

\* Dropdown.hideMenu(): part_005 also focuses the trigger
hideMenu(s, d) ==
  LET s1 == [s EXCEPT !.hidden[d] = TRUE]
  IN  IF dropdownSource = "part_005" /\ ddConnected[d]
      THEN [s1 EXCEPT !.active = TriggerOf(d)] ELSE s1

\* Dropdown.toggleMenu(): part_005 also sets aria-expanded
toggleMenu(s, d) ==
  LET isVisible == ~s.hidden[d]
      s1 == IF isVisible THEN hideMenu(s, d) ELSE showMenu(s, d)
  IN  IF dropdownSource = "part_005"
      THEN [s1 EXCEPT !.aria[d] = IF isVisible THEN "false" ELSE "true"]
      ELSE s1

\* Dropdown.handleTriggerKeydown(e) (part_005)
handleTriggerKeydown(s, d, key) ==
  IF key \in {"Enter", "Space", "ArrowDown"} THEN focusFirstMenuItem(showMenu(s, d), d)
  ELSE IF key = "Escape" THEN hideMenu(s, d)
  ELSE s

\* Faulty variant: the arrow keys wrap around the ends of the menu.
handleContentKeydown_Wrap(s, d, key) ==
  LET currentIndex == IF s.active[1] = "item" /\ s.active[2] = d
                      THEN s.active[3] ELSE -1
  IN  IF key = "ArrowDown"
      THEN IF itemCount[d] > 0
           THEN [s EXCEPT !.active = ItemOf(d, (currentIndex + 1) % itemCount[d])]
           ELSE s
      ELSE IF key = "ArrowUp"
      THEN IF itemCount[d] > 0
           THEN [s EXCEPT !.active =
                   ItemOf(d, IF currentIndex > 0 THEN currentIndex - 1
                             ELSE itemCount[d] - 1)]
           ELSE s
      ELSE IF key = "Escape"
      THEN [hideMenu(s, d) EXCEPT !.active = TriggerOf(d)]
      ELSE IF key = "Tab" THEN hideMenu(s, d)
      ELSE s

\* Dropdown.handleContentKeydown(e) (part_005)
handleContentKeydown(s, d, key) ==
  LET currentIndex == IF s.active[1] = "item" /\ s.active[2] = d
                      THEN s.active[3] ELSE -1
  IN  IF key = "ArrowDown"
      THEN IF currentIndex < itemCount[d] - 1
           THEN [s EXCEPT !.active = ItemOf(d, currentIndex + 1)] ELSE s
      ELSE IF key = "ArrowUp"
      THEN IF currentIndex > 0
           THEN [s EXCEPT !.active = ItemOf(d, currentIndex - 1)] ELSE s
      ELSE IF key = "Escape"
      THEN [hideMenu(s, d) EXCEPT !.active = TriggerOf(d)]
      ELSE IF key = "Tab" THEN hideMenu(s, d)
      ELSE s

\* Dropdown.handleDocumentClick(e): path is the set of dropdown elements on
\* the composed path of the click
handleDocumentClick(s, d, path) == IF d \notin path THEN hideMenu(s, d) ELSE s

RECURSIVE RunDocumentClick(_, _, _)
\* the document's click listeners run in the order of their registration
RunDocumentClick(s, listeners, path) ==
  IF listeners = <<>> THEN s
  ELSE RunDocumentClick(handleDocumentClick(s, Head(listeners), path),
                        Tail(listeners), path)

RECURSIVE RunUpdatePosition(_, _)
\* the window's scroll (or resize) listeners run in the order of registration
RunUpdatePosition(s, listeners) ==
  IF listeners = <<>> THEN s
  ELSE RunUpdatePosition(updatePosition(s, Head(listeners)), Tail(listeners))

RECURSIVE RunFrame(_, _)
\* one animation frame: every waiting callback runs, oldest first
RunFrame(s, queue) ==
  IF queue = <<>> THEN s
  ELSE RunFrame(focusFirstMenuItem(s, Head(queue)), Tail(queue))

DdCommit(s, op) ==
  /\ contentHidden' = s.hidden
  /\ ddAriaExpanded' = s.aria
  /\ activeElement' = s.active
  /\ frameQueue' = s.frames
  /\ position' = s.pos
  /\ lastOp' = op
  /\ UNCHANGED <<dropdownSource, itemCount>>
  /\ UNCHANGED <<accVars, tabVars, plVars, initVars, libVars>>

DdInit ==
  /\ dropdownSource \in DropdownSources
  /\ ddConnected = [d \in Dropdowns |-> FALSE]
  /\ docListeners = <<>>
  /\ contentHidden = [d \in Dropdowns |-> TRUE]
  /\ ddAriaExpanded = [d \in Dropdowns |-> "unset"]
  /\ itemCount \in {[d \in Dropdowns |-> n] : n \in 0 .. MaxItems}
  /\ activeElement = Body
  /\ frameQueue = <<>>
  /\ scene \in 1 .. Len(Scenes)
  /\ position = [d \in Dropdowns |-> NoPosition]

\* Dropdown.attachEventListeners(): one more listener of d on the document
\* (click) and on the window (scroll, resize); each is a new bound function
attachEventListeners(listeners, d) == Append(listeners, d)

\* Faulty variant: the listener registered last is removed, whoever owns it.
detachEventListeners_PopLast(listeners, d) ==
  IF listeners = <<>> THEN listeners ELSE SubSeq(listeners, 1, Len(listeners) - 1)

\* Dropdown.detachEventListeners(): every removeEventListener is given a
\* function that bind() has just created, which was never registered, so no
\* listener is removed
detachEventListeners(listeners, d) == listeners

\* Dropdown.connectedCallback: render, initializeElements (a new content div
\* is created hidden and without inline style), attachEventListeners
DdConnect(d) ==
  /\ ~ddConnected[d]
  /\ Len(docListeners) < MaxListeners
  /\ ddConnected' = [ddConnected EXCEPT ![d] = TRUE]
  /\ docListeners' = attachEventListeners(docListeners, d)
  /\ LET s == [DdState EXCEPT !.hidden[d] = TRUE,
                              !.pos[d] = NoPosition,
                              !.aria[d] = IF dropdownSource = "part_005"
                                          THEN "false" ELSE @]
     IN  DdCommit(s, <<"connect", d>>)
  /\ UNCHANGED scene

\* Dropdown.disconnectedCallback: detachEventListeners, this.content.remove().
\* The element and its content panel leave the document.
DdDisconnect(d) ==
  /\ ddConnected[d]
  /\ ddConnected' = [ddConnected EXCEPT ![d] = FALSE]
  /\ docListeners' = detachEventListeners(docListeners, d)
  /\ LET s == [DdState EXCEPT !.active = IF @[2] = d THEN Body ELSE @]
     IN  DdCommit(s, <<"disconnect", d>>)
  /\ UNCHANGED scene

\* a handler may ask for one more frame callback
FrameRoom == Len(frameQueue) < MaxFrames

\* A click on the trigger of d: handleTriggerClick stops the propagation, so
\* no listener of the document sees the click.
DdClickTrigger(d) ==
  /\ ddConnected[d]
  /\ FrameRoom
  /\ DdCommit(toggleMenu(DdState, d), <<"clickTrigger", d>>)
  /\ UNCHANGED <<ddConnected, docListeners, scene>>

\* A click inside the visible content panel of d.  The panel is a child of
\* document.body: no dropdown element is on the path.
DdClickContent(d) ==
  /\ ddConnected[d]
  /\ ~contentHidden[d]
  /\ DdCommit(RunDocumentClick(DdState, docListeners, {}), <<"clickContent", d>>)
  /\ UNCHANGED <<ddConnected, docListeners, scene>>

\* A click inside the dropdown element d, outside its trigger.
DdClickHost(d) ==
  /\ ddConnected[d]
  /\ DdCommit(RunDocumentClick(DdState, docListeners, {d}), <<"clickHost", d>>)
  /\ UNCHANGED <<ddConnected, docListeners, scene>>

\* A click on the page outside every dropdown and every content panel.
DdClickOutside ==
  /\ DdCommit(RunDocumentClick(DdState, docListeners, {}), <<"clickOutside", 0>>)
  /\ UNCHANGED <<ddConnected, docListeners, scene>>

\* A key pressed while the focus is on the trigger, the content panel or a
\* menu item of d (part_005 registers the keydown listeners).  lastOp names
\* the key, the dropdown and the kind of element that held the focus.
DdKeyDown(key) ==
  /\ dropdownSource = "part_005"
  /\ activeElement[1] \in {"trigger", "content", "item"}
  /\ ddConnected[activeElement[2]]
  /\ FrameRoom
  /\ LET d == activeElement[2]
         s == IF activeElement[1] = "trigger"
              THEN handleTriggerKeydown(DdState, d, key)
              ELSE handleContentKeydown(DdState, d, key)
     IN  DdCommit(s, <<key, d, activeElement[1]>>)
  /\ UNCHANGED <<ddConnected, docListeners, scene>>

\* the browser runs an animation frame
DdFrame ==
  /\ frameQueue # <<>>
  /\ DdCommit([RunFrame(DdState, frameQueue) EXCEPT !.frames = <<>>], <<"frame", 0>>)
  /\ UNCHANGED <<ddConnected, docListeners, scene>>

\* the elements the user can move the focus to
Focusable ==
  {Body}
    \cup {TriggerOf(d) : d \in {e \in Dropdowns : ddConnected[e]}}
    \cup {ContentOf(d) : d \in {e \in Dropdowns : ddConnected[e] /\ ~contentHidden[e]}}
    \cup UNION {{ItemOf(d, i) : i \in 0 .. itemCount[d] - 1} :
                  d \in {e \in Dropdowns : ddConnected[e] /\ ~contentHidden[e]}}

\* the user moves the focus (Tab navigation, pointer)
DdFocus(e) ==
  /\ e \in Focusable
  /\ e # activeElement
  /\ DdCommit([DdState EXCEPT !.active = e], <<"focus", 0>>)
  /\ UNCHANGED <<ddConnected, docListeners, scene>>

\* the page scrolls: the geometry changes, the scroll listeners run
DdScroll ==
  /\ scene' \in 1 .. Len(Scenes)
  /\ DdCommit(RunUpdatePosition(DdState, docListeners), <<"scroll", 0>>)
  /\ UNCHANGED <<ddConnected, docListeners>>

\* the window is resized: the geometry changes, the resize listeners run
DdResize ==
  /\ scene' \in 1 .. Len(Scenes)
  /\ DdCommit(RunUpdatePosition(DdState, docListeners), <<"resize", 0>>)
  /\ UNCHANGED <<ddConnected, docListeners>>

\* disconnectedCallback called once more on a dropdown that was connected
\* and has been disconnected: detachEventListeners again, and
\* this.content.remove() on the content that is detached already
DdDisconnectAgain(d) ==
  /\ ~ddConnected[d]
  /\ \E i \in 1 .. Len(docListeners) : docListeners[i] = d
  /\ docListeners' = detachEventListeners(docListeners, d)
  /\ DdCommit(DdState, <<"disconnectAgain", d>>)
  /\ UNCHANGED <<ddConnected, scene>>

DropdownNext ==
  \/ \E d \in Dropdowns : DdConnect(d)
  \/ \E d \in Dropdowns : DdDisconnect(d)
  \/ \E d \in Dropdowns : DdDisconnectAgain(d)
  \/ \E d \in Dropdowns : DdClickTrigger(d)
  \/ \E d \in Dropdowns : DdClickContent(d)
  \/ \E d \in Dropdowns : DdClickHost(d)
  \/ DdClickOutside
  \/ \E key \in Keys : DdKeyDown(key)
  \/ DdFrame
  \/ \E e \in Focusable : DdFocus(e)
  \/ DdScroll
  \/ DdResize

(***************************************************************************)
(* PLACEMENT                                                               *)
(*                                                                         *)
(* updatePosition as a function of the rectangles it reads: the trigger    *)
(* rectangle, the content size and the viewport size are whatever the      *)
(* layout of the page makes them, the trigger may lie outside the          *)
(* viewport.                                                               *)
(***************************************************************************)
\* Scenario A of the documentation
ScenarioA == Scenes[1]

\* the rectangles the layout can produce: a grid around a 50 x 40 viewport,
\* and the two scenes of the dropdown page
Rects ==
  {[tx |-> tx, ty |-> ty, tw |-> tw, th |-> 4, cw |-> cw, ch |-> ch,
    vw |-> 50, vh |-> 40] :
     tx \in {0, 30, 44}, ty \in {0, 16, 30, 60}, tw \in {4, 9},
     cw \in {10, 20, 40, 60}, ch \in {10, 30, 50}}
    \cup {Scenes[i] : i \in 1 .. Len(Scenes)}

PlInit ==
  /\ plRects \in Rects
  /\ plStyle = NoPosition

\* Dropdown.updatePosition() on the rectangles the browser reports now
PlUpdatePosition ==
  /\ plStyle' = Place(plRects)
  /\ lastOp' = <<"updatePosition", 0>>
  /\ UNCHANGED <<plRects, accVars, tabVars, ddVars, initVars, libVars>>

\* the layout of the page changes (scroll, resize, new content)
PlLayout(g) ==
  /\ g # plRects
  /\ plRects' = g
  /\ lastOp' = <<"layout", 0>>
  /\ UNCHANGED <<plStyle, accVars, tabVars, ddVars, initVars, libVars>>

PlacementNext ==
  \/ PlUpdatePosition
  \/ \E g \in Rects : PlLayout(g)

(***************************************************************************)
(* INITIALIZATION                                                          *)
(*                                                                         *)
(* connectedCallback of a dropdown and of an accordion whose shadow tree   *)
(* need not hold every element initializeElements looks up (the template   *)
(* of render() holds them all; a subclass may render another one).  The    *)
(* dropdown is dropdown 1 of the page; the accordion is one more           *)
(* accordion, outside every group.                                         *)
(***************************************************************************)
DdRequired == {"trigger", "slot", "container"}

AccLookups == {"trigger", "content"}

\* connectedCallback has not run, has raised, has completed; the element was
\* taken out of the document after connectedCallback ran
InitStages == {"no", "failed", "done", "disconnected"}

\* an accordion element as constructed: no field assigned but isExpanded
FreshAccordion ==
  [init |-> "no", trigger |-> FALSE, content |-> FALSE, exp |-> FALSE,
   ariaExp |-> "unset", ariaHid |-> "unset", clickListener |-> FALSE,
   transitionListener |-> FALSE]

InitIdle ==
  /\ ddFound = DdRequired
  /\ accFound = AccLookups
  /\ fresh = FreshAccordion
  /\ initError = "none"

InInit ==
  /\ ddFound \in SUBSET DdRequired
  /\ accFound \in SUBSET AccLookups
  /\ fresh = FreshAccordion
  /\ initError = "none"

\* Faulty variant: the trigger of the dropdown is optional.
Dropdown_initializeElements_TriggerOptional(found) ==
  IF {"slot", "container"} \subseteq found THEN "none"
  ELSE "REQUIRED_ELEMENTS_NOT_FOUND"

\* the test of Dropdown.initializeElements: what it raises
Dropdown_initializeElements(found) ==
  IF DdRequired \subseteq found THEN "none" ELSE "REQUIRED_ELEMENTS_NOT_FOUND"

\* Dropdown.connectedCallback of dropdown 1: initializeElements raises before
\* the content div is created and before attachEventListeners is reached
InDdConnect ==
  /\ ~ddConnected[1]
  /\ Len(docListeners) < MaxListeners
  /\ initError' = Dropdown_initializeElements(ddFound)
  /\ IF initError' = "none"
     THEN /\ ddConnected' = [ddConnected EXCEPT ![1] = TRUE]
          /\ docListeners' = attachEventListeners(docListeners, 1)
          /\ ddAriaExpanded' = [ddAriaExpanded EXCEPT ![1] = "false"]
     ELSE UNCHANGED <<ddConnected, docListeners, ddAriaExpanded>>
  /\ lastOp' = <<"connect", 1>>
  /\ UNCHANGED <<dropdownSource, contentHidden, itemCount, activeElement,
                 frameQueue, scene, position>>
  /\ UNCHANGED <<accVars, tabVars, plVars, libVars, ddFound, accFound, fresh>>

\* Accordion.connectedCallback, on the first insertion and on every later
\* one: render writes a new shadow tree, initializeElements looks the elements
\* up (raises when the content is missing; the trigger is optional) and sets
\* their attributes, attachEventListeners.  isExpanded is not assigned.
InAccConnect ==
  /\ fresh.init \in {"no", "disconnected"}
  /\ IF "content" \notin accFound
     THEN /\ fresh' = [fresh EXCEPT !.init = "failed"]
          /\ initError' = "REQUIRED_ELEMENTS_NOT_FOUND"
     ELSE /\ fresh' = [fresh EXCEPT
                         !.init = "done",
                         !.trigger = "trigger" \in accFound,
                         !.content = TRUE,
                         !.ariaExp = IF "trigger" \in accFound THEN "false" ELSE @,
                         !.ariaHid = "true",
                         !.clickListener = "trigger" \in accFound,
                         !.transitionListener = TRUE]
          /\ initError' = "none"
  /\ lastOp' = <<"accConnect", 0>>
  /\ UNCHANGED <<accVars, tabVars, ddVars, plVars, libVars, ddFound, accFound>>

\* Accordion.toggle() on the accordion f: isExpanded is flipped first; a
\* trigger that was not found is skipped (this.trigger?.), a content that
\* was never assigned makes this.content.scrollHeight raise a TypeError
FreshToggle(f) ==
  LET g == [f EXCEPT !.exp = ~f.exp]
  IN  IF ~f.content THEN [acc |-> g, raised |-> "TypeError"]
      ELSE [acc |-> [g EXCEPT !.ariaExp = IF f.trigger
                                          THEN (IF g.exp THEN "true" ELSE "false")
                                          ELSE @,
                              !.ariaHid = IF g.exp THEN "false" ELSE "true"],
            raised |-> "none"]

InCommit(r, op) ==
  /\ fresh' = r.acc
  /\ initError' = r.raised
  /\ lastOp' = op
  /\ UNCHANGED <<accVars, tabVars, ddVars, plVars, libVars, ddFound, accFound>>

\* public open()
InAccOpen ==
  /\ fresh.init \in InitStages
  /\ InCommit(IF ~fresh.exp THEN FreshToggle(fresh)
              ELSE [acc |-> fresh, raised |-> "none"], <<"accOpen", 0>>)

\* public close()
InAccClose ==
  /\ fresh.init \in InitStages
  /\ InCommit(IF fresh.exp THEN FreshToggle(fresh)
              ELSE [acc |-> fresh, raised |-> "none"], <<"accClose", 0>>)

\* public toggle()
InAccToggle ==
  /\ fresh.init \in InitStages
  /\ InCommit(FreshToggle(fresh), <<"accToggle", 0>>)

\* a click on the trigger, once its listener is attached
InAccClick ==
  /\ fresh.init = "done"
  /\ fresh.clickListener
  /\ InCommit(FreshToggle(fresh), <<"accClick", 0>>)

\* Accordion.disconnectedCallback: detachEventListeners, which removes no
\* listener (it passes newly bound functions) and reads this.content, a
\* TypeError when the content was never assigned
InAccDisconnect ==
  /\ fresh.init \in {"failed", "done"}
  /\ InCommit([acc |-> [fresh EXCEPT !.init = "disconnected"],
               raised |-> IF fresh.content THEN "none" ELSE "TypeError"],
              <<"accDisconnect", 0>>)

InitializationNext ==
  \/ InDdConnect
  \/ InAccConnect
  \/ InAccDisconnect
  \/ InAccOpen
  \/ InAccClose
  \/ InAccToggle
  \/ InAccClick

(***************************************************************************)
(* MEDIATOR                                                                *)
(*                                                                         *)
(* One Mediator.  Request classes are named 1..MaxRequestTypes, handler    *)
(* objects 1..MaxHandlers; the constructor of a request is its class.      *)
(* handle() of handler h yields a response that names h.                   *)
(***************************************************************************)
RequestTypes == 1 .. MaxRequestTypes

Handlers == 1 .. MaxHandlers

\* Faulty variant: a registration does not replace an earlier one.
Mediator_register_KeepFirst(handlers, requestType, handler) ==
  IF handlers[requestType] # Null THEN handlers
  ELSE [handlers EXCEPT ![requestType] = handler]

\* Mediator.register(requestType, handler): Map.set
Mediator_register(handlers, requestType, handler) ==
  [handlers EXCEPT ![requestType] = handler]

\* Mediator.send(request) for a request whose constructor is requestType:
\* the handlers it calls and what the returned promise settles to
Mediator_send(handlers, requestType) ==
  LET handler == handlers[requestType]
  IN  IF handler = Null
      THEN [invoked |-> {}, result |-> <<"No handler registered", 0>>]
      ELSE [invoked |-> {handler}, result |-> <<"response", handler>>]

MedInit ==
  /\ medHandlers = [t \in RequestTypes |-> Null]
  /\ medInvoked = {}
  /\ medResult = <<"none", 0>>

MedRegister(t, h) ==
  /\ medHandlers' = Mediator_register(medHandlers, t, h)
  /\ medInvoked' = {}
  /\ medResult' = <<"none", 0>>
  /\ lastOp' = <<"register", t, h>>
  /\ UNCHANGED <<accVars, tabVars, ddVars, plVars, initVars, injVars, i18nVars>>

MedSend(t) ==
  /\ medInvoked' = Mediator_send(medHandlers, t).invoked
  /\ medResult' = Mediator_send(medHandlers, t).result
  /\ lastOp' = <<"send", t>>
  /\ UNCHANGED medHandlers
  /\ UNCHANGED <<accVars, tabVars, ddVars, plVars, initVars, injVars, i18nVars>>

MediatorNext ==
  \/ \E t \in RequestTypes, h \in Handlers : MedRegister(t, h)
  \/ \E t \in RequestTypes : MedSend(t)

(***************************************************************************)
(* INJECTOR                                                                *)
(*                                                                         *)
(* The shared instance (the static _instance, built while the class is     *)
(* defined) and one instance the application builds with new Injector(..). *)
(* Map "own" is the Map the field initializer gave the shared instance,    *)
(* map "ext" is a Map of the application, which it may pass to the         *)
(* constructor and to getInstance.                                         *)
(***************************************************************************)
Tokens == 1 .. MaxTokens

Values == 1 .. MaxTokens

MapIds == {"own", "ext"}

Instances == {"shared", "built"}

\* new Injector(initialContainer) after the class is defined: _instance is
\* set, so the container field is overwritten with the argument, undefined
\* when there is none
Injector_constructor(initialContainer) == initialContainer

\* Injector.register(token, value) on an instance whose container is c
Injector_register(maps, c, token, value) ==
  IF c \in MapIds
  THEN [maps |-> [maps EXCEPT ![c][token] = value], result |-> <<"none", 0>>]
  ELSE [maps |-> maps, result |-> <<"TypeError", 0>>]

\* Injector.resolve(token) on an instance whose container is c (Null: the
\* Map has no entry for the token)
Injector_resolve(maps, c, token) ==
  IF c \notin MapIds THEN <<"TypeError", 0>>
  ELSE IF maps[c][token] = Null THEN <<"Token not found in container", 0>>
  ELSE <<"value", maps[c][token]>>

InjInit ==
  /\ injMaps = [m \in MapIds |-> [t \in Tokens |-> Null]]
  /\ injContainer = [i \in Instances |-> IF i = "shared" THEN "own" ELSE "unbuilt"]
  /\ injResult = <<"none", 0>>

InjCommit(maps, containers, result, op) ==
  /\ injMaps' = maps
  /\ injContainer' = containers
  /\ injResult' = result
  /\ lastOp' = op
  /\ UNCHANGED <<accVars, tabVars, ddVars, plVars, initVars, medVars, i18nVars>>

\* the application builds an instance: new Injector(), new Injector(ext)
InjConstruct(arg) ==
  /\ arg \in {"undefined", "ext"}
  /\ InjCommit(injMaps,
               [injContainer EXCEPT !["built"] = Injector_constructor(arg)],
               <<"none", 0>>, <<"new", arg>>)

\* Injector.getInstance(injectMap): a map that is given replaces the
\* container of the shared instance
InjGetInstance(arg) ==
  /\ arg \in {"undefined", "ext"}
  /\ InjCommit(injMaps,
               [injContainer EXCEPT !["shared"] = IF arg # "undefined" THEN arg ELSE @],
               <<"none", 0>>, <<"getInstance", arg>>)

InjRegister(i, t, v) ==
  /\ injContainer[i] # "unbuilt"
  /\ LET r == Injector_register(injMaps, injContainer[i], t, v)
     IN  InjCommit(r.maps, injContainer, r.result, <<"injRegister", i, t, v>>)

InjResolve(i, t) ==
  /\ injContainer[i] # "unbuilt"
  /\ InjCommit(injMaps, injContainer,
               Injector_resolve(injMaps, injContainer[i], t), <<"resolve", i, t>>)

InjectorNext ==
  \/ \E arg \in {"undefined", "ext"} : InjConstruct(arg)
  \/ \E arg \in {"undefined", "ext"} : InjGetInstance(arg)
  \/ \E i \in Instances, t \in Tokens, v \in Values : InjRegister(i, t, v)
  \/ \E i \in Instances, t \in Tokens : InjResolve(i, t)

(***************************************************************************)
(* I18N                                                                    *)
(*                                                                         *)
(* Locale detection and locale switching of URLs.  A string is a sequence  *)
(* of characters; a URL is represented by its pathname, which always       *)
(* begins with "/".  The translation table knows the locales "en" and      *)
(* "tr", in either order.                                                  *)
(***************************************************************************)
En == <<"e", "n">>

Tr == <<"t", "r">>

\* the path segments of the site: the locales, a page, and a page whose name
\* begins like a locale
Segments == {En, Tr, <<"x">>, <<"t", "r", "x">>}

RECURSIVE JoinPath(_)
JoinPath(segs) ==
  IF segs = <<>> THEN <<>> ELSE <<"/">> \o Head(segs) \o JoinPath(Tail(segs))

\* the pathnames the page can start at
Paths ==
  {IF segs = <<>> THEN <<"/">> ELSE JoinPath(segs) :
     segs \in UNION {[1 .. n -> Segments] : n \in 0 .. MaxSegments}}

\* String.prototype.indexOf, one-based; 0 when sub does not occur
StrIndexOf(str, sub) ==
  LET hits == {i \in 1 .. Len(str) - Len(sub) + 1 :
                 SubSeq(str, i, i + Len(sub) - 1) = sub}
  IN  IF hits = {} THEN 0 ELSE CHOOSE i \in hits : \A j \in hits : i <= j

\* str.replace(sub, ""): the first occurrence of sub is taken out
RemoveFirst(str, sub) ==
  LET i == StrIndexOf(str, sub)
  IN  IF i = 0 THEN str
      ELSE SubSeq(str, 1, i - 1) \o SubSeq(str, i + Len(sub), Len(str))

\* the second element of pathname.split("/"): the characters between the
\* leading "/" and the next one
SecondOfSplit(pathname) ==
  LET rest == Tail(pathname)
      i == StrIndexOf(rest, <<"/">>)
  IN  IF i = 0 THEN rest ELSE SubSeq(rest, 1, i - 1)

\* the pathname setter of URL: the path of an http URL is absolute
SetPathname(value) ==
  IF value = <<>> \/ Head(value) # "/" THEN <<"/">> \o value ELSE value

\* I18n.getLocaleFromUrl(url, defaultLocale); the empty string and undefined
\* are both falsy
getLocaleFromUrl(locales, pathname, defaultLocale) ==
  LET segment == SecondOfSplit(pathname)
      included == \E i \in 1 .. Len(locales) : locales[i] = segment
      locale == IF ~included
                THEN (IF Len(locales) > 0 THEN locales[1] ELSE <<>>)
                ELSE segment
  IN  IF locale # <<>> THEN locale ELSE defaultLocale

\* I18n.getLocaleUrl(url, locale, defaultLocale)
getLocaleUrl(locales, pathname, locale, defaultLocale) ==
  LET currentLocale == getLocaleFromUrl(locales, pathname, defaultLocale)
      p1 == IF currentLocale # defaultLocale
            THEN SetPathname(RemoveFirst(pathname, <<"/">> \o currentLocale))
            ELSE pathname
      p2 == IF locale # defaultLocale
            THEN SetPathname(<<"/">> \o locale \o p1)
            ELSE p1
  IN  IF currentLocale = locale THEN pathname ELSE p2

I18nInit ==
  /\ i18nLocales \in {<<En, Tr>>, <<Tr, En>>}
  /\ i18nUrl \in Paths
  /\ i18nLocale \in {En, Tr}
  /\ i18nDefault \in {En, Tr}
  /\ i18nOut = <<>>
  /\ i18nDetected = <<>>

\* the page builds the link to its version in the locale asked for
I18nGetLocaleUrl ==
  /\ i18nOut' = getLocaleUrl(i18nLocales, i18nUrl, i18nLocale, i18nDefault)
  /\ i18nDetected' = <<>>
  /\ lastOp' = <<"getLocaleUrl", 0>>
  /\ UNCHANGED <<i18nLocales, i18nUrl, i18nLocale, i18nDefault>>
  /\ UNCHANGED <<accVars, tabVars, ddVars, plVars, initVars, medVars, injVars>>

\* the page behind that link detects its locale
I18nGetLocaleFromUrl ==
  /\ i18nOut # <<>>
  /\ i18nDetected' = getLocaleFromUrl(i18nLocales, i18nOut, i18nDefault)
  /\ lastOp' = <<"getLocaleFromUrl", 0>>
  /\ UNCHANGED <<i18nLocales, i18nUrl, i18nLocale, i18nDefault, i18nOut>>
  /\ UNCHANGED <<accVars, tabVars, ddVars, plVars, initVars, medVars, injVars>>

I18nNext ==
  \/ I18nGetLocaleUrl
  \/ I18nGetLocaleFromUrl

vars == <<accVars, tabVars, ddVars, plVars, initVars, libVars, lastOp>>

\* the mediator, the injectors and the I18n object unused
LibIdle ==
  /\ MedInit
  /\ InjInit
  /\ I18nInit
  /\ i18nLocales = <<En, Tr>>
  /\ i18nUrl = <<"/">>
  /\ i18nLocale = En
  /\ i18nDefault = En

\* no placement computed
PlIdle ==
  /\ plRects = ScenarioA
  /\ plStyle = NoPosition

\* the tab group left as built, for the specifications of the other widgets
TabIdle ==
  /\ tabConnected = FALSE
  /\ panelCount = 0
  /\ triggerCount = 0
  /\ tabs = <<>>
  /\ tabActive = [p \in Panels |-> FALSE]
  /\ activeTab = Null
  /\ triggerSelected = [i \in TriggerIndexes |-> FALSE]
  /\ tabResult = "none"

\* the accordions left as built
AccIdle == AccInit /\ accordionSource = "Accordion.ts"

\* the dropdowns left as built
DdIdle ==
  /\ DdInit
  /\ dropdownSource = "part_005"
  /\ itemCount = [d \in Dropdowns |-> 0]
  /\ scene = 1

AccordionInit ==
  AccInit /\ TabIdle /\ DdIdle /\ PlIdle /\ InitIdle /\ LibIdle /\ lastOp = <<"init", 0>>

AccordionSpec == AccordionInit /\ [][AccordionNext]_vars

TabGroupInit ==
  TabInit /\ AccIdle /\ DdIdle /\ PlIdle /\ InitIdle /\ LibIdle /\ lastOp = <<"init", 0>>

TabSpec == TabGroupInit /\ [][TabGroupNext]_vars

TabPanelSpec == TabGroupInit /\ [][TabPanelNext]_vars

DropdownInit ==
  DdInit /\ AccIdle /\ TabIdle /\ PlIdle /\ InitIdle /\ LibIdle /\ lastOp = <<"init", 0>>

DropdownSpec == DropdownInit /\ [][DropdownNext]_vars

PlacementInit ==
  PlInit /\ AccIdle /\ TabIdle /\ DdIdle /\ InitIdle /\ LibIdle /\ lastOp = <<"init", 0>>

PlacementSpec == PlacementInit /\ [][PlacementNext]_vars

InitializationInit ==
  InInit /\ AccIdle /\ TabIdle /\ DdIdle /\ PlIdle /\ LibIdle /\ lastOp = <<"init", 0>>

InitializationSpec == InitializationInit /\ [][InitializationNext]_vars

MediatorInit ==
  /\ LibIdle
  /\ AccIdle /\ TabIdle /\ DdIdle /\ PlIdle /\ InitIdle
  /\ lastOp = <<"init", 0>>

MediatorSpec == MediatorInit /\ [][MediatorNext]_vars

InjectorInit ==
  /\ LibIdle
  /\ TabIdle /\ AccIdle /\ DdIdle /\ PlIdle /\ InitIdle
  /\ lastOp = <<"init", 0>>

InjectorSpec == InjectorInit /\ [][InjectorNext]_vars

I18nUrlInit ==
  /\ I18nInit /\ MedInit /\ InjInit
  /\ AccIdle /\ TabIdle /\ DdIdle /\ PlIdle /\ InitIdle
  /\ lastOp = <<"init", 0>>

I18nSpec == I18nUrlInit /\ [][I18nNext]_vars

Init ==
  /\ AccInit /\ TabInit /\ DdInit /\ PlInit /\ InInit
  /\ MedInit /\ InjInit /\ I18nInit
  /\ lastOp = <<"init", 0>>

Next == AccordionNext \/ TabPanelNext \/ DropdownNext \/ PlacementNext
          \/ InitializationNext \/ MediatorNext \/ InjectorNext \/ I18nNext

Spec == Init /\ [][Next]_vars

(***************************************************************************)
(* CLAIMS                                                                  *)
(***************************************************************************)

ExpandedMembers(g) == {a \in Members(g) : isExpanded[a]}

\* C1: in every accordion group at most one member accordion is expanded
\* after each open/close/toggle call or trigger click has run to completion.
C1_Exclusivity == \A g \in Groups : Cardinality(ExpandedMembers(g)) <= 1

\* C2: when member m1 is the only expanded member of a group and member m2
\* is opened, the group calls m1's close operation exactly once, m1 ends
\* collapsed, m2 expanded, and the group records m2 as its open accordion.
C2_OpenSecondMember ==
  [][\A g \in Groups : \A m1, m2 \in Members(g) :
       (/\ m1 # m2
        /\ ExpandedMembers(g) = {m1}
        /\ isExpanded'[m2]
        /\ lastOp'[2] = m2)
       => (/\ collapseCalls'[m1] = 1
           /\ ~isExpanded'[m1]
           /\ currentOpenAccordion'[g] = m2)]_vars

ActivePanels == {p \in Panels : tabActive[p]}

C4_SelectTab ==
  [][lastOp'[1] = "selectTab" =>
       IF lastOp'[2] < 0 \/ lastOp'[2] >= tabCount
       THEN tabResult' = "false" /\ activeTab' = activeTab /\ tabActive' = tabActive
       ELSE tabResult' = "true" /\ activeTabIndex' = lastOp'[2]]_vars

\* selectTab(tabCount), the first index past the range, was refused on a
\* group that has an active tab
C4_Witness ==
  /\ tabCount >= 2
  /\ lastOp = <<"selectTab", tabCount>>
  /\ tabResult = "false"
  /\ activeTabIndex = tabCount - 1

\* C5: with tabCount = n >= 1 and active index i, nextTab() returns true and
\* makes the active index (i + 1) mod n; previousTab() returns true and makes
\* it i - 1, or n - 1 when i = 0.
C5_CircularNavigation ==
  [][(tabCount >= 1 /\ activeTabIndex >= 0) =>
       /\ lastOp'[1] = "nextTab" =>
            tabResult' = "true" /\ activeTabIndex' = (activeTabIndex + 1) % tabCount
       /\ lastOp'[1] = "previousTab" =>
            /\ tabResult' = "true"
            /\ activeTabIndex' =
                 IF activeTabIndex = 0 THEN tabCount - 1 ELSE activeTabIndex - 1]_vars

\* nextTab() wrapped from the last tab to the first
C5_Witness ==
  /\ tabCount >= 2
  /\ lastOp[1] = "nextTab"
  /\ tabResult = "true"
  /\ activeTabIndex = 0

\* C6: on a tab group with zero tabs nextTab() and previousTab() return
\* false, raise nothing and leave activeTabIndex at -1.
C6_EmptyGroupNavigation ==
  (tabConnected /\ tabCount = 0 /\ lastOp[1] \in {"nextTab", "previousTab"})
    => (tabResult = "false" /\ activeTabIndex = -1)

\* the clicks whose composed path does not contain the dropdown element d
ClickAwayFrom(d, op) ==
  \/ op[1] = "clickOutside"
  \/ op[1] \in {"clickTrigger", "clickHost", "clickContent"} /\ op[2] # d

\* C7: every click whose dispatch path does not contain the dropdown, a click
\* on another dropdown's trigger included, leaves a dropdown that was open
\* closed (content hidden) once the click has been processed.
C7_ClickAwayCloses ==
  [][\A d \in Dropdowns :
       (~contentHidden[d] /\ ClickAwayFrom(d, lastOp')) => contentHidden'[d]]_vars

\* C8: processing an outside click does not move the focus onto a dropdown's
\* trigger, whether the dropdown was open or closed when the click arrived.
C8_OutsideClickKeepsFocus ==
  [][lastOp'[1] = "clickOutside" =>
       \A d \in Dropdowns :
         activeElement' = TriggerOf(d) => activeElement = TriggerOf(d)]_vars

\* C9: a click inside the dropdown's own content panel (a click on a menu
\* item, say) does not close the dropdown.
C9_ContentClickKeepsOpen ==
  [][\A d \in Dropdowns :
       (~contentHidden[d] /\ lastOp' = <<"clickContent", d>>)
         => ~contentHidden'[d]]_vars

\* C10: with the dropdown that defers its focus move to the next frame, no
\* menu item of a dropdown holds the focus while that dropdown's content is
\* hidden, whatever the order of show, close and the frame callback.
C10_NoItemFocusWhileClosed ==
  dropdownSource = "part_005" =>
    \A d \in Dropdowns :
      contentHidden[d] => ~(activeElement[1] = "item" /\ activeElement[2] = d)

\* the listeners of dropdown d registered on the document
ListenersOf(d) == {i \in 1 .. Len(docListeners) : docListeners[i] = d}

\* C11: across any sequence of connect and disconnect every dropdown has at
\* most one click listener on the document and one scroll and one resize
\* listener on the window, and none while it is disconnected.
C11_ListenersBalanced ==
  \A d \in Dropdowns :
    Cardinality(ListenersOf(d)) <= (IF ddConnected[d] THEN 1 ELSE 0)

\* the trigger of d is activated: a click on it, or one of the given keys
\* pressed while it holds the focus
TriggerActivated(d, keys, op) ==
  \/ op = <<"clickTrigger", d>>
  \/ \E key \in keys : op = <<key, d, "trigger">>

\* a dropdown whose content is shown on the page
IsOpen(d) == ddConnected[d] /\ ~contentHidden[d]

\* C12: while the content is shown, activating the trigger again, by a click
\* or by Enter or Space pressed on the trigger, hides the content.
C12_ReactivationCloses ==
  [][\A d \in Dropdowns :
       (IsOpen(d) /\ TriggerActivated(d, {"Enter", "Space"}, lastOp'))
         => contentHidden'[d]]_vars

\* C13: while the content is hidden, a click on the trigger or Enter, Space
\* or ArrowDown pressed on the trigger shows the content and, in the same
\* handler, applies the position computed from the geometry of that moment.
C13_ActivationOpensAndPlaces ==
  [][\A d \in Dropdowns :
       (/\ ddConnected[d]
        /\ contentHidden[d]
        /\ TriggerActivated(d, {"Enter", "Space", "ArrowDown"}, lastOp'))
       => (/\ ~contentHidden'[d]
           /\ position'[d] = Place(Scenes[scene']))]_vars

\* ArrowDown on the trigger showed the content and placed it
C13_Witness ==
  /\ lastOp = <<"ArrowDown", 1, "trigger">>
  /\ ~contentHidden[1]
  /\ frameQueue = <<1>>
  /\ scene = 1
  /\ position[1] = Place(ScenarioA)

\* C14: in an open dropdown with item i focused, ArrowDown moves the focus
\* to item i + 1, or leaves it on i when i is the last item; ArrowUp moves it
\* to i - 1, or leaves it on i when i = 0; the focused index stays within
\* the items and never wraps around.
C14_ArrowKeysClamp ==
  [][\A d \in Dropdowns : \A i \in 0 .. itemCount[d] - 1 :
       (IsOpen(d) /\ activeElement = ItemOf(d, i)) =>
         /\ lastOp' = <<"ArrowDown", d, "item">> =>
              activeElement' = ItemOf(d, IF i < itemCount[d] - 1 THEN i + 1 ELSE i)
         /\ lastOp' = <<"ArrowUp", d, "item">> =>
              activeElement' = ItemOf(d, IF i > 0 THEN i - 1 ELSE i)]_vars

\* ArrowDown was pressed on an item and the focus is on the last item
C14_Witness ==
  /\ lastOp = <<"ArrowDown", 1, "item">>
  /\ IsOpen(1)
  /\ itemCount[1] = MaxItems
  /\ activeElement = ItemOf(1, MaxItems - 1)

SpecPlace(g) ==
  LET left0 == 2 * g.tx + (g.tw - g.cw)
      top0 == g.ty + g.th + Margin
      left1 == IF left0 + 2 * g.cw > 2 * (g.vw - Margin)
               THEN 2 * (g.vw - g.cw - Margin) ELSE left0
      left2 == IF left1 < 2 * Margin THEN 2 * Margin ELSE left1
      aboveTop == g.ty - g.ch - Margin
      top1 == IF top0 + g.ch > g.vh - Margin
              THEN IF aboveTop > 0 THEN aboveTop
                   ELSE g.vh - g.ch - Margin
              ELSE top0
  IN  [set |-> TRUE, top |-> top1, left2 |-> left2, maxWidth |-> g.vw - 2 * Margin]

\* updatePosition has just run on plRects
Placed == lastOp[1] = "updatePosition"

\* C16: for every trigger rectangle, content size and viewport size, the
\* top, left and maxWidth the dropdown applies are those of the documented
\* place() algorithm with margin 8, whose overflow tests compare with the
\* viewport size less the margin.
C16_PlaceAsDocumented == Placed => plStyle = SpecPlace(plRects)

\* C17: the applied top satisfies top + content.height <= viewport.height
\* unless the content alone is higher than the viewport.
C17_BottomInsideViewport ==
  (Placed /\ plRects.ch <= plRects.vh) => plStyle.top + plRects.ch <= plRects.vh

\* C18: when the placement below the trigger would pass the bottom of the
\* viewport, top is trigger.top - content.height - 8 if that is positive and
\* viewport.height - content.height - 8 otherwise; Scenario A gives top 592
\* and left 450.
C18_FlipAbove ==
  Placed =>
    /\ plRects.ty + plRects.th + 8 + plRects.ch > plRects.vh =>
         plStyle.top = IF plRects.ty - plRects.ch - 8 > 0
                       THEN plRects.ty - plRects.ch - 8
                       ELSE plRects.vh - plRects.ch - 8
    /\ plRects = ScenarioA => (plStyle.top = 592 /\ plStyle.left2 = 2 * 450)

\* Scenario A was placed above the trigger
C18_Witness ==
  /\ Placed
  /\ plRects = [tx |-> 500, ty |-> 700, tw |-> 100, th |-> 30, cw |-> 200,
                ch |-> 100, vw |-> 1024, vh |-> 768]
  /\ plStyle.top = 592

\* C19: the applied left is never smaller than the margin, 8; the
\* computation always yields a placement.
C19_LeftAtLeastMargin == Placed => (plStyle.set /\ plStyle.left2 >= 2 * 8)

\* content wider than the viewport, centred left of the page, placed at 8
C19_Witness ==
  /\ Placed
  /\ plRects.cw > plRects.vw
  /\ 2 * plRects.tx + plRects.tw - plRects.cw < 0
  /\ plStyle.left2 = 2 * 8

\* C20: every placement sets maxWidth to viewport.width - 16, whichever
\* horizontal and vertical branch was taken.
C20_MaxWidth == Placed => plStyle.maxWidth = plRects.vw - 16

\* a placement that took the horizontal clamp and the fallback of the
\* vertical branch
C20_Witness ==
  /\ Placed
  /\ 2 * plRects.tx + plRects.tw - plRects.cw + 2 * plRects.cw > 2 * plRects.vw
  /\ plRects.ty + plRects.th + 8 + plRects.ch > plRects.vh
  /\ plRects.ty - plRects.ch - 8 <= 0
  /\ plStyle.maxWidth = plRects.vw - 16

\* C21: the position of the content is recomputed on scroll and resize only
\* while the content is shown: a scroll or resize that arrives while the
\* dropdown is closed leaves the content's top, left and maxWidth unchanged.
C21_NoPlacementWhileClosed ==
  [][\A d \in Dropdowns :
       (contentHidden[d] /\ lastOp'[1] \in {"scroll", "resize"})
         => position'[d] = position[d]]_vars

\* C22: open() on an expanded accordion changes no state and dispatches no
\* accordion-expanded event, so the group collapses no sibling and keeps its
\* recorded open accordion; close() on a collapsed accordion is a no-op too.
C22_OpenCloseIdempotent ==
  [][\A a \in Accordions :
       (\/ lastOp' = <<"open", a>> /\ isExpanded[a]
        \/ lastOp' = <<"close", a>> /\ ~isExpanded[a])
       => (/\ isExpanded' = isExpanded
           /\ ariaExpanded' = ariaExpanded
           /\ ariaHidden' = ariaHidden
           /\ currentOpenAccordion' = currentOpenAccordion
           /\ eventsDispatched' = 0
           /\ collapseCalls' = [b \in Accordions |-> 0]
           /\ ~listenerError')]_vars

\* open() ran on a group member that was expanded already, next to another
\* expanded member
C22_Witness ==
  /\ lastOp = <<"open", 2>>
  /\ isExpanded[2]
  /\ isExpanded[3]
  /\ eventsDispatched = 0

\* C23: when the accordion a group records as its open member is closed, the
\* record is cleared: in every reachable state a recorded open accordion is
\* expanded.
C23_RecordedIsExpanded ==
  \A g \in Groups :
    currentOpenAccordion[g] # Null => isExpanded[currentOpenAccordion[g]]

\* C24: when the accordion recorded as a group's open member is removed from
\* the group, the record is cleared, and no later opening of another member
\* calls collapse on the removed accordion.
C24_RemovedNotRecorded ==
  \A g \in Groups : \A a \in Members(g) :
    accRemoved[a] => (currentOpenAccordion[g] # a /\ collapseCalls[a] = 0)

\* C25: in a connected group activeTabIndex is -1 exactly when no tab of
\* the group is active, and otherwise it is the index of the one tab whose
\* isActive is true, whatever calls of selectTab, nextTab, previousTab,
\* Tab.activate() and Tab.deactivate() were made.
C25_ActiveIndexMatchesPanels ==
  tabConnected =>
    IF activeTabIndex = -1 THEN ActivePanels = {}
    ELSE ActivePanels = {tabs[activeTabIndex + 1]}

\* C26: a click on the trigger at position i < tabCount activates panel i
\* and deactivates the panel that was active, so that activeTabIndex = i; a
\* click on a trigger without a panel (i >= tabCount) changes nothing and
\* raises no error.
C26_TriggerClick ==
  [][(tabConnected /\ lastOp'[1] = "triggerClick") =>
       IF lastOp'[2] < tabCount
       THEN /\ activeTabIndex' = lastOp'[2]
            /\ tabActive' = [p \in Panels |-> p = lastOp'[2] + 1]
            /\ tabResult' # "TypeError"
       ELSE /\ tabActive' = tabActive
            /\ activeTab' = activeTab
            /\ triggerSelected' = triggerSelected
            /\ tabResult' # "TypeError"]_vars

\* the trigger at position 1 was clicked and panel 1 took over from panel 0
C26_Witness ==
  /\ tabConnected
  /\ tabCount >= 2
  /\ lastOp = <<"triggerClick", 1>>
  /\ activeTabIndex = 1
  /\ ~tabActive[1]

\* C30: after every successful activation (initial selection, selectTab,
\* nextTab, previousTab, trigger click) the tab-activated event of the new
\* active tab has been handled: the trigger at the active index is selected
\* and every other trigger is deselected.
C30_TriggersFollowActiveTab ==
  (tabConnected /\ activeTabIndex >= 0) =>
    \A i \in 0 .. triggerCount - 1 : triggerSelected[i] <=> (i = activeTabIndex)

\* C27: in an open dropdown with no menu item focused, ArrowDown pressed in
\* the content or on the trigger moves the focus to item 0; when the content
\* has no menu item, opening, ArrowDown and ArrowUp leave the focus where it
\* is.
C27_FirstItemOrNothing ==
  [][\A d \in Dropdowns :
       /\ (/\ IsOpen(d)
           /\ itemCount[d] > 0
           /\ lastOp' \in {<<"ArrowDown", d, "content">>, <<"ArrowDown", d, "trigger">>})
          => activeElement' = ItemOf(d, 0)
       /\ (/\ ddConnected[d]
           /\ itemCount[d] = 0
           /\ \/ contentHidden[d] /\ TriggerActivated(d, {"Enter", "Space", "ArrowDown"}, lastOp')
              \/ \E target \in {"trigger", "content"} :
                   lastOp' \in {<<"ArrowDown", d, target>>, <<"ArrowUp", d, target>>})
          => activeElement' = activeElement]_vars

\* ArrowDown pressed in the content panel put the focus on the first item
C27_Witness ==
  /\ lastOp = <<"ArrowDown", 1, "content">>
  /\ IsOpen(1)
  /\ activeElement = ItemOf(1, 0)

C31_ShowThenMeasure ==
  [][\A d \in Dropdowns :
       (ddConnected[d] /\ contentHidden[d] /\ ~contentHidden'[d])
         => (/\ position'[d] = Place(Scenes[scene'])
             /\ position'[d] # Place([Scenes[scene'] EXCEPT !.cw = 0, !.ch = 0]))]_vars

\* Enter on the trigger opened a dropdown that had been placed while hidden
\* in the other geometry
C31_Witness ==
  /\ lastOp = <<"Enter", 2, "trigger">>
  /\ ~contentHidden[2]
  /\ scene = 2
  /\ position[2] = Place(Scenes[2])
  /\ position[1] = Place([Scenes[1] EXCEPT !.cw = 0, !.ch = 0])

\* the groups accordion a is a member of (its parent element)
OwnGroups(a) == {g \in Groups : a \in Members(g)}

\* C32: opening an accordion changes the expanded state only of accordions
\* of its own group: standalone accordions and the members of every other
\* group, the outer group around a nested group included, keep their
\* expanded state, and the other groups keep their recorded open accordion.
C32_OpeningStaysInGroup ==
  [][\A a \in Accordions :
       (/\ lastOp'[1] \in {"open", "toggle", "click"}
        /\ lastOp'[2] = a
        /\ ~isExpanded[a]
        /\ isExpanded'[a])
       => (/\ \A b \in Accordions :
                (\A g \in OwnGroups(a) : b \notin Members(g))
                  => isExpanded'[b] = isExpanded[b]
           /\ \A g \in Groups \ OwnGroups(a) :
                currentOpenAccordion'[g] = currentOpenAccordion[g])]_vars

\* C33: in every state of the keyboard-capable dropdown reached through
\* trigger clicks, key presses on trigger and content, and outside clicks,
\* the trigger's aria-expanded attribute is "true" exactly when the content
\* is visible.
C33_AriaExpandedMatchesVisible ==
  dropdownSource = "part_005" =>
    \A d \in Dropdowns :
      ddConnected[d] => (ddAriaExpanded[d] = "true" <=> ~contentHidden[d])

\* C34: in every reachable state of a connected accordion, across any
\* sequence of open/close/toggle calls, trigger clicks and disconnect and
\* reconnect cycles, isExpanded is true exactly when the trigger's
\* aria-expanded is "true" and the content's aria-hidden is "false".
C34_ExpandedMatchesAria ==
  (fresh.init = "done" /\ accFound = AccLookups)
    => (fresh.exp <=> (fresh.ariaExp = "true" /\ fresh.ariaHid = "false"))

\* C35: whenever content.width + 8 <= viewport.width, the computed left
\* keeps the content horizontally inside the viewport, 8 <= left and
\* left + content.width <= viewport.width, for every anchor position.
C35_HorizontallyInside ==
  (Placed /\ plRects.cw + 8 <= plRects.vw)
    => (/\ 2 * 8 <= plStyle.left2
        /\ plStyle.left2 + 2 * plRects.cw <= 2 * plRects.vw)

\* a content that fits with one margin but not with two was centred past
\* the right edge, moved back and then raised to the margin
C35_Witness ==
  /\ Placed
  /\ plRects.cw + 8 <= plRects.vw
  /\ plRects.cw + 16 > plRects.vw
  /\ 2 * plRects.tx + plRects.tw + plRects.cw > 2 * plRects.vw
  /\ plStyle.left2 = 2 * 8

\* the active index of a tab group state
IndexIn(s) == ActiveTabIndexOf(s.tabs, s.activeTab)

RECURSIVE NextTabTimes(_, _)
\* k consecutive nextTab() calls
NextTabTimes(s, k) == IF k = 0 THEN s ELSE NextTabTimes(nextTab(s), k - 1)

\* C36: in a tab group with n >= 1 tabs and an active tab, nextTab()
\* followed by previousTab(), and previousTab() followed by nextTab(),
\* restores the original active index, and n consecutive nextTab() calls
\* return to the starting index.
C36_NextPreviousInverse ==
  [][(tabCount >= 1 /\ activeTabIndex >= 0) =>
       /\ lastOp'[1] = "nextTab" => IndexIn(previousTab(TabState))' = activeTabIndex
       /\ lastOp'[1] = "previousTab" => IndexIn(nextTab(TabState))' = activeTabIndex
       /\ IndexIn(NextTabTimes(TabState, tabCount)) = activeTabIndex]_vars

\* nextTab() wrapped a full group from its last tab to the first, from
\* where previousTab() leads back to the last
C36_Witness ==
  /\ tabCount = MaxTabs
  /\ lastOp[1] = "nextTab"
  /\ activeTabIndex = 0
  /\ IndexIn(previousTab(TabState)) = MaxTabs - 1
  /\ IndexIn(NextTabTimes(TabState, MaxTabs)) = 0

\* C37: Mediator.send(request) invokes exactly the handler most recently
\* registered for the request's constructor and yields its result; when no
\* handler is registered for that constructor it fails with a "No handler
\* registered" error without invoking any handler or changing the
\* registrations; registering a handler for one request type never changes
\* the handler of another type.
C37_MediatorDispatch ==
  [][/\ \A t \in RequestTypes :
          lastOp' = <<"send", t>> =>
            /\ medHandlers' = medHandlers
            /\ IF medHandlers[t] # Null
               THEN /\ medInvoked' = {medHandlers[t]}
                    /\ medResult' = <<"response", medHandlers[t]>>
               ELSE /\ medInvoked' = {}
                    /\ medResult' = <<"No handler registered", 0>>
     /\ \A t \in RequestTypes, h \in Handlers :
          lastOp' = <<"register", t, h>> =>
            /\ medHandlers'[t] = h
            /\ \A u \in RequestTypes \ {t} : medHandlers'[u] = medHandlers[u]]_vars

\* a request of type 1 went to handler 2, registered after handler 1, while
\* type 2 has its own handler and type 3 has none
C37_Witness ==
  /\ lastOp = <<"send", 1>>
  /\ medHandlers = <<2, 1, Null>>
  /\ medInvoked = {2}
  /\ medResult = <<"response", 2>>

\* C38: for every Injector instance (the shared instance, or one constructed
\* with or without an initial container), register(token, value) followed by
\* resolve(token) returns the most recently registered value, and resolve of
\* a token that was never registered throws "Token not found in container"
\* and leaves the container unchanged.
C38_RegisterResolve ==
  [][/\ \A i \in Instances, t \in Tokens, v \in Values :
          lastOp' = <<"injRegister", i, t, v>> =>
            /\ injResult' = <<"none", 0>>
            /\ Injector_resolve(injMaps', injContainer'[i], t) = <<"value", v>>
     /\ \A i \in Instances, t \in Tokens :
          lastOp' = <<"resolve", i, t>> =>
            /\ injMaps' = injMaps
            /\ injContainer' = injContainer
            /\ injResult' \in {<<"Token not found in container", 0>>}
                                \cup {<<"value", v>> : v \in Values}]_vars

\* C39: for every URL and every known locale L,
\* getLocaleFromUrl(getLocaleUrl(url, L, defaultLocale), defaultLocale) = L,
\* including when L is the default locale and when the original URL carries
\* no locale prefix.
C39_LocaleRoundTrip ==
  i18nDetected # <<>> => i18nDetected = i18nLocale

====
